---- MODULE Spec2Model ----
(***************************************************************************)
(* A model of the W3C Trace Context library (package tracecontext):        *)
(* traceparent.go, the tracestate list, and the orchestration in           *)
(* tracecontext.go.  Strings are sequences of one-character strings, so    *)
(* that the regular expressions, the slicing and the formatting of the     *)
(* code are computed character by character.                               *)
(***************************************************************************)
EXTENDS Integers, Sequences, FiniteSets, TLC

VARIABLES
    op,          \* the operation that ran last ("none" after construction)
    args,        \* the arguments of that call, a record
    err,         \* TRUE iff that call returned a non-nil error
    tp,          \* the TraceParent object under test (Nil when there is none)
    str,         \* the last value returned by tp.String()
    newTp,       \* [err, tp]: the result of ParseTraceParent(str)
    newHeaders,  \* the *http.Header returned by the last call (Nil when nil)
    tc,          \* the *TraceContext returned by the last call (Nil when nil)
    memberAfter, \* the caller's *TraceStateMember object after the call
    traceState,  \* the TraceState object under test (Nil when there is none)
    tsBefore,    \* that object as it was before the last ts.Mutate
    tsStr,       \* the last value returned by ts.String()
    newTs,       \* [err, ts]: the result of ParseTraceState(tsStr)
    mutations,   \* the number of ts.Mutate calls made so far
    callerHeaders, \* the caller's header object after the last call (Nil when none)
    viaHttp      \* [err, headers, tc] of HandleTraceContext on the headers last
                 \* given to HandleKongTraceContext, with the same draws

vars == <<op, args, err, tp, str, newTp, newHeaders, tc, memberAfter,
          traceState, tsBefore, tsStr, newTs, mutations, callerHeaders, viaHttp>>

\* A nil pointer.
Nil == [nil |-> TRUE]

-----------------------------------------------------------------------------
(* Characters and strings *)

Rep(c, n) == [i \in 1..n |-> c]

Digit == {"0", "1", "2", "3", "4", "5", "6", "7", "8", "9"}

LowerAlpha ==
    {"a", "b", "c", "d", "e", "f", "g", "h", "i", "j", "k", "l", "m",
     "n", "o", "p", "q", "r", "s", "t", "u", "v", "w", "x", "y", "z"}

UpperAlpha ==
    {"A", "B", "C", "D", "E", "F", "G", "H", "I", "J", "K", "L", "M",
     "N", "O", "P", "Q", "R", "S", "T", "U", "V", "W", "X", "Y", "Z"}

HexDigits ==
    <<"0", "1", "2", "3", "4", "5", "6", "7", "8", "9", "a", "b", "c", "d", "e", "f">>

\* The character class [a-f0-9] of every format in traceparent.go.
HexLower == {HexDigits[i] : i \in 1..16}

HexVal(c) == (CHOOSE i \in 1..16 : HexDigits[i] = c) - 1

\* hex.DecodeString of a two-character string.  Every call site runs after a
\* pattern that admits only [a-f0-9] there, so the error branch is dead.
DecodeByte(c1, c2) == HexVal(c1) * 16 + HexVal(c2)

\* fmt's %02x of a uint8.
Hex2(b) == <<HexDigits[(b \div 16) + 1], HexDigits[(b % 16) + 1]>>

\* s[from:to] of Go, with 0-based from (inclusive) and to (exclusive).
Slice(x, from, to) == SubSeq(x, from + 1, to)

AllIn(x, class) == \A i \in 1..Len(x) : x[i] \in class

\* regexp `^[a-f0-9]{n}$`
IsHexN(x, n) == Len(x) = n /\ AllIn(x, HexLower)

\* unanchored regexp `[a-f0-9]{n}-` : n hex characters and a dash, anywhere in x
HasHexNDash(x, n) ==
    \E i \in 1..(Len(x) - n) :
        /\ \A j \in i..(i + n - 1) : x[j] \in HexLower
        /\ x[i + n] = "-"

\* unanchored regexp `[a-f0-9]{n}`
HasHexN(x, n) ==
    \E i \in 1..(Len(x) - n + 1) : \A j \in i..(i + n - 1) : x[j] \in HexLower

-----------------------------------------------------------------------------
(* traceparent.go *)

FlagSampled == 1
HighestSupportedTraceContextVersion == 0

SamplingBehaviorPassThrough == 0
SamplingBehaviorAlwaysSampled == 1
SamplingBehaviorNeverSampled == 2
\* A SamplingBehavior (a uint8) that is none of the three.
InvalidSampling == SamplingBehaviorNeverSampled + 1

TraceIdLen == 32
ParentIdLen == 16
TraceParentLen == 55

traceIdPattern(x) == IsHexN(x, TraceIdLen)
parentIdPattern(x) == IsHexN(x, ParentIdLen)
traceIdAndDashPattern(x) == HasHexNDash(x, TraceIdLen)
parentIdAndDashPattern(x) == HasHexNDash(x, ParentIdLen)
flagsPattern(x) == HasHexN(x, 2)

\* `^[a-f0-9]{2}-`
versionPattern(x) ==
    /\ Len(x) >= 3
    /\ x[1] \in HexLower /\ x[2] \in HexLower /\ x[3] = "-"

\* `^[a-f0-9]{2}-[a-f0-9]{32}-[a-f0-9]{16}-[a-f0-9]{2}$`
traceParentPattern(x) ==
    /\ Len(x) = TraceParentLen
    /\ versionPattern(x)
    /\ IsHexN(Slice(x, 3, 35), TraceIdLen) /\ x[36] = "-"
    /\ IsHexN(Slice(x, 36, 52), ParentIdLen) /\ x[53] = "-"
    /\ IsHexN(Slice(x, 53, 55), 2)

ZeroTraceId == Rep("0", TraceIdLen)
ZeroParentId == Rep("0", ParentIdLen)

TraceParent(v, t, p, f) == [version |-> v, traceId |-> t, parentId |-> p, flags |-> f]

Fail == [err |-> TRUE, tp |-> Nil]
Ok(x) == [err |-> FALSE, tp |-> x]

\* A parseHigherVersion that does not look at what follows the flags.
parseHigherVersionAnyEnd(x) ==
    IF Len(x) < TraceParentLen THEN Fail
    ELSE IF ~traceIdAndDashPattern(Slice(x, 3, 37)) THEN Fail
    ELSE IF ~parentIdAndDashPattern(Slice(x, 36, 53)) THEN Fail
    ELSE IF ~flagsPattern(Slice(x, 53, 55)) THEN Fail
    ELSE Ok(TraceParent(HighestSupportedTraceContextVersion,
                        Slice(x, 3, 35), Slice(x, 36, 52),
                        DecodeByte(x[54], x[55])))

parseHigherVersion(x) ==
    IF Len(x) < TraceParentLen THEN Fail
    ELSE IF ~traceIdAndDashPattern(Slice(x, 3, 37)) THEN Fail
    ELSE IF ~parentIdAndDashPattern(Slice(x, 36, 53)) THEN Fail
    ELSE IF ~flagsPattern(Slice(x, 53, 55)) THEN Fail
    ELSE IF ~(Len(x) = TraceParentLen \/ (Len(x) >= TraceParentLen + 1 /\ x[56] = "-")) THEN Fail
    ELSE Ok(TraceParent(HighestSupportedTraceContextVersion,
                        Slice(x, 3, 35), Slice(x, 36, 52),
                        DecodeByte(x[54], x[55])))

ParseTraceParent(x) ==
    IF ~traceParentPattern(x) THEN
        IF ~versionPattern(x) THEN Fail
        ELSE IF DecodeByte(x[1], x[2]) > HighestSupportedTraceContextVersion
             THEN parseHigherVersion(x)
             ELSE Fail
    ELSE IF DecodeByte(x[1], x[2]) = 255 THEN Fail
    ELSE IF Slice(x, 3, 35) = ZeroTraceId THEN Fail
    ELSE IF Slice(x, 36, 52) = ZeroParentId THEN Fail
    ELSE Ok(TraceParent(DecodeByte(x[1], x[2]), Slice(x, 3, 35), Slice(x, 36, 52),
                        DecodeByte(x[54], x[55])))

IsSampled(p) == p.flags % 2 = FlagSampled

\* flags |= FlagSampled, flags &= ^FlagSampled on a uint8
SetSampled(p, b) ==
    [p EXCEPT !.flags = IF b THEN (p.flags - (p.flags % 2)) + FlagSampled
                             ELSE p.flags - (p.flags % 2)]

\* SetParentId and SetTraceId return the object after the call and the error.
SetParentId(p, id) ==
    IF ~parentIdPattern(id) THEN [err |-> TRUE, tp |-> p]
    ELSE [err |-> FALSE, tp |-> [p EXCEPT !.parentId = id]]

SetTraceId(p, id) ==
    IF ~traceIdPattern(id) THEN [err |-> TRUE, tp |-> p]
    ELSE [err |-> FALSE, tp |-> [p EXCEPT !.traceId = id]]

\* The zero value TraceParent{}.
ZeroTraceParent == TraceParent(0, <<>>, <<>>, 0)

NewTraceParent(traceId, parentId) ==
    LET a == SetTraceId(ZeroTraceParent, traceId) IN
    IF a.err THEN Fail
    ELSE LET b == SetParentId(a.tp, parentId) IN
         IF b.err THEN Fail ELSE Ok(b.tp)

\* fmt.Sprintf("%02x-%s-%s-%02x", version, traceId, parentId, flags)
String(p) == Hex2(p.version) \o <<"-">> \o p.traceId \o <<"-">> \o p.parentId
             \o <<"-">> \o Hex2(p.flags)

applySamplingBehavior(p, sb) ==
    IF sb = SamplingBehaviorPassThrough THEN [err |-> FALSE, tp |-> p]
    ELSE IF sb = SamplingBehaviorAlwaysSampled THEN [err |-> FALSE, tp |-> SetSampled(p, TRUE)]
    ELSE IF sb = SamplingBehaviorNeverSampled THEN [err |-> FALSE, tp |-> SetSampled(p, FALSE)]
    ELSE [err |-> TRUE, tp |-> p]

-----------------------------------------------------------------------------
(* The tracestate list *)

\* \s of Go's regexp: [\t\n\f\r ]
Whitespace == {" ", "\t", "\n", "\f", "\r"}

\* [a-z0-9] and [a-z0-9_\-\*\/@]
KeyFirstChar == LowerAlpha \cup Digit
KeyChar == KeyFirstChar \cup {"_", "-", "*", "/", "@"}

\* [\x21-\x2b\x2d-\x3c\x3e-\x7e]: printable ASCII but space, comma and equals
\* (the backquote \x60 has no TLA+ string literal and is left out of the alphabet)
ValueLastChar ==
    LowerAlpha \cup UpperAlpha \cup Digit \cup
    {"!", "\"", "#", "$", "%", "&", "'", "(", ")", "*", "+",
     "-", ".", "/", ":", ";", "<",
     ">", "?", "@", "[", "\\", "]", "^", "_", "{", "|", "}", "~"}

\* [\x20-\x2b\x2d-\x3c\x3e-\x7e]
ValueChar == ValueLastChar \cup {" "}

\* The {0,255} of keyFormat and of valueFormat.
MaxKeyTail == 255
MaxValueHead == 255

\* The list is cut to this many members by Mutate.
MaxMembers == 32

\* `^[a-z0-9][a-z0-9_\-\*\/@]{0,255}$`
keyPattern(k) ==
    /\ Len(k) >= 1 /\ Len(k) <= MaxKeyTail + 1
    /\ k[1] \in KeyFirstChar
    /\ AllIn(k, KeyChar)

\* `^[\x20-\x2b\x2d-\x3c\x3e-\x7e]{0,255}[\x21-\x2b\x2d-\x3c\x3e-\x7e]$`
valuePattern(v) ==
    /\ Len(v) >= 1 /\ Len(v) <= MaxValueHead + 1
    /\ AllIn(v, ValueChar)
    /\ v[Len(v)] \in ValueLastChar

TraceStateMember(k, v) == [Key |-> k, Value |-> v]

\* Index of the first character of x from position i on that is not in class,
\* 0 if there is none.
RECURSIVE ScanNotIn(_, _, _)
ScanNotIn(x, class, i) ==
    IF i > Len(x) THEN 0
    ELSE IF x[i] \notin class THEN i
    ELSE ScanNotIn(x, class, i + 1)

FirstNotIn(x, class) == ScanNotIn(x, class, 1)

RECURSIVE ScanBackNotIn(_, _, _)
ScanBackNotIn(x, class, i) ==
    IF i < 1 THEN 0
    ELSE IF x[i] \notin class THEN i
    ELSE ScanBackNotIn(x, class, i - 1)

LastNotIn(x, class) == ScanBackNotIn(x, class, Len(x))

\* Index of the first c in x from position i on, 0 if there is none.
RECURSIVE IndexFrom(_, _, _)
IndexFrom(x, c, i) ==
    IF i > Len(x) THEN 0
    ELSE IF x[i] = c THEN i
    ELSE IndexFrom(x, c, i + 1)

FirstIndexOf(x, c) == IndexFrom(x, c, 1)

\* memberPattern.FindStringSubmatch for `^\s*(key)=(value)\s*$`.  Neither a key
\* nor a value holds '=', a key does not start with \s and a value does not end
\* with \s, so the only possible match takes the key from the first
\* non-blank character to the first '=', and the value from there to the last
\* non-blank character.
\* A parseMember that also drops the white space between '=' and the value.
parseMemberTrimsValue(x) ==
    LET b  == FirstNotIn(x, Whitespace)
        e  == LastNotIn(x, Whitespace)
        eq == FirstIndexOf(x, "=")
    IN  IF b = 0 \/ eq = 0 \/ eq <= b \/ eq >= e THEN [err |-> TRUE, member |-> Nil]
        ELSE LET k == SubSeq(x, b, eq - 1)
                 v == SubSeq(x, ScanNotIn(x, Whitespace, eq + 1), e)
             IN  IF keyPattern(k) /\ valuePattern(v)
                 THEN [err |-> FALSE, member |-> TraceStateMember(k, v)]
                 ELSE [err |-> TRUE, member |-> Nil]

parseMember(x) ==
    LET b  == FirstNotIn(x, Whitespace)
        e  == LastNotIn(x, Whitespace)
        eq == FirstIndexOf(x, "=")
    IN  IF b = 0 \/ eq = 0 \/ eq <= b \/ eq >= e THEN [err |-> TRUE, member |-> Nil]
        ELSE LET k == SubSeq(x, b, eq - 1)
                 v == SubSeq(x, eq + 1, e)
             IN  IF keyPattern(k) /\ valuePattern(v)
                 THEN [err |-> FALSE, member |-> TraceStateMember(k, v)]
                 ELSE [err |-> TRUE, member |-> Nil]

\* strings.Split(x, ","): the pieces between the commas, empty ones included.
RECURSIVE SplitFrom(_, _)
SplitFrom(x, i) ==
    LET c == IndexFrom(x, ",", i) IN
    IF c = 0 THEN <<SubSeq(x, i, Len(x))>>
    ELSE <<SubSeq(x, i, c - 1)>> \o SplitFrom(x, c + 1)

Split(x) == SplitFrom(x, 1)

TraceState(ms) == [Members |-> ms]

RECURSIVE parseCandidates(_, _)
parseCandidates(cands, acc) ==
    IF cands = <<>> THEN [err |-> FALSE, ts |-> TraceState(acc)]
    ELSE IF Len(Head(cands)) = 0 THEN parseCandidates(Tail(cands), acc)
    ELSE LET m == parseMember(Head(cands)) IN
         IF m.err THEN [err |-> TRUE, ts |-> Nil]
         ELSE parseCandidates(Tail(cands), Append(acc, m.member))

ParseTraceState(x) == parseCandidates(Split(x), <<>>)

\* Index of the first member with the key from position i on, 0 for the code's -1.
RECURSIVE KeyIndexFrom(_, _, _)
KeyIndexFrom(ms, k, i) ==
    IF i > Len(ms) THEN 0
    ELSE IF ms[i].Key = k THEN i
    ELSE KeyIndexFrom(ms, k, i + 1)

\* A search that never finds the key.
IndexOfKeyNeverFinds(ms, k) == 0

IndexOfKey(ms, k) == KeyIndexFrom(ms, k, 1)

\* A removal that treats every hit like a hit on the last entry.
RemoveAtDropsTail(ms, idx) == SubSeq(ms, 1, idx - 1)

RemoveAt(ms, idx) == SubSeq(ms, 1, idx - 1) \o SubSeq(ms, idx + 1, Len(ms))

\* A Mutate that never cuts the list.
TruncateNever(ms) == ms

Truncate(ms) == IF Len(ms) > MaxMembers THEN SubSeq(ms, 1, MaxMembers) ELSE ms

\* A Mutate that forgets to remove the old entry of the key.
TraceStateMutateKeepsOld(ts, m) ==
    IF ~keyPattern(m.Key) THEN [err |-> TRUE, ts |-> ts]
    ELSE IF ~valuePattern(m.Value) THEN [err |-> TRUE, ts |-> ts]
    ELSE [err |-> FALSE, ts |-> TraceState(Truncate(<<m>> \o ts.Members))]

\* A Mutate that looks at the value only after it has changed the list.
TraceStateMutateValidatesLate(ts, m) ==
    IF ~keyPattern(m.Key) THEN [err |-> TRUE, ts |-> ts]
    ELSE LET idx  == IndexOfKey(ts.Members, m.Key)
             rest == IF idx # 0 THEN RemoveAt(ts.Members, idx) ELSE ts.Members
         IN  [err |-> ~valuePattern(m.Value),
              ts |-> TraceState(Truncate(<<m>> \o rest))]

\* TraceState.Mutate: the list after the call and the error.
TraceStateMutate(ts, m) ==
    IF ~keyPattern(m.Key) THEN [err |-> TRUE, ts |-> ts]
    ELSE IF ~valuePattern(m.Value) THEN [err |-> TRUE, ts |-> ts]
    ELSE LET idx  == IndexOfKey(ts.Members, m.Key)
             rest == IF idx # 0 THEN RemoveAt(ts.Members, idx) ELSE ts.Members
         IN  [err |-> FALSE, ts |-> TraceState(Truncate(<<m>> \o rest))]

RECURSIVE JoinMembers(_)
JoinMembers(ms) ==
    IF ms = <<>> THEN <<>>
    ELSE Head(ms).Key \o <<"=">> \o Head(ms).Value
         \o (IF Len(ms) > 1 THEN <<",">> ELSE <<>>) \o JoinMembers(Tail(ms))

TraceStateString(ts) == JoinMembers(ts.Members)

MemberValue(ts, k) ==
    LET idx == IndexOfKey(ts.Members, k) IN
    IF idx = 0 THEN <<>> ELSE ts.Members[idx].Value

NewEmptyTraceState == TraceState(<<>>)

NewTraceState(m) ==
    LET r == TraceStateMutate(TraceState(<<>>), m) IN
    IF r.err THEN [err |-> TRUE, ts |-> Nil] ELSE [err |-> FALSE, ts |-> r.ts]

-----------------------------------------------------------------------------
(* tracecontext.go *)

TraceStateHeader == "tracestate"
TraceParentHeader == "traceparent"

\* textproto.CanonicalMIMEHeaderKey on the header names the code uses.
CanonicalKey(k) ==
    CASE k = "traceparent" -> "Traceparent"
      [] k = "tracestate" -> "Tracestate"
      [] k = "TRACEPARENT" -> "Traceparent"
      [] k = "TRACESTATE" -> "Tracestate"
      [] OTHER -> k

\* An http.Header is a function from canonical names to sequences of values.
HeaderGet(h, k) ==
    LET c == CanonicalKey(k) IN
    IF c \in DOMAIN h /\ Len(h[c]) > 0 THEN h[c][1] ELSE <<>>

HeaderSet(h, k, v) ==
    LET c == CanonicalKey(k) IN
    [n \in (DOMAIN h) \cup {c} |-> IF n = c THEN <<v>> ELSE h[n]]

\* A Del that deletes nothing.
HeaderDelKeeps(h, k) == h

HeaderDel(h, k) ==
    LET c == CanonicalKey(k) IN [n \in (DOMAIN h) \ {c} |-> h[n]]

\* http.Header.Clone: a deep copy, every name with a copy of its values.
HeaderClone(h) == [n \in DOMAIN h |-> [i \in 1..Len(h[n]) |-> h[n][i]]]

TraceContext(p, ts) == [TraceParent |-> p, TraceState |-> ts]

\* A ParseTraceContext that fails when the tracestate does not parse.
ParseTraceContextAllOrNothing(h) ==
    LET p == ParseTraceParent(HeaderGet(h, TraceParentHeader)) IN
    IF p.err THEN [err |-> TRUE, tc |-> Nil]
    ELSE LET st == ParseTraceState(HeaderGet(h, TraceStateHeader)) IN
         IF st.err THEN [err |-> TRUE, tc |-> Nil]
         ELSE [err |-> FALSE, tc |-> TraceContext(p.tp, st.ts)]

ParseTraceContext(h) ==
    LET p == ParseTraceParent(HeaderGet(h, TraceParentHeader)) IN
    IF p.err THEN [err |-> TRUE, tc |-> Nil]
    ELSE LET st == ParseTraceState(HeaderGet(h, TraceStateHeader)) IN
         [err |-> FALSE,
          tc  |-> TraceContext(p.tp, IF st.err THEN Nil ELSE st.ts)]

\* randomHex(n): n bytes of crypto/rand as 2n lowercase hex characters, or the
\* error of the random source.  The draw is handed in by the caller of the model.
randomHex(draw) == draw

\* member.Value = parentId when the value is empty: the caller's object changes.
DefaultValue(m, parentId) ==
    IF m.Value = <<>> THEN [m EXCEPT !.Value = parentId] ELSE m

\* Results carry the caller's member object as the call leaves it.
GenerateTraceContext(parentId, m, sb, r) ==
    LET t == randomHex(r.traceId) IN
    IF t.err THEN [err |-> TRUE, tc |-> Nil, member |-> m]
    ELSE
    LET q == IF parentId = <<>> THEN randomHex(r.parentId)
                                ELSE [err |-> FALSE, val |-> parentId] IN
    IF q.err THEN [err |-> TRUE, tc |-> Nil, member |-> m]
    ELSE
    LET p == NewTraceParent(t.val, q.val) IN
    IF p.err THEN [err |-> TRUE, tc |-> Nil, member |-> m]
    ELSE
    LET a == applySamplingBehavior(p.tp, sb) IN
    IF a.err THEN [err |-> TRUE, tc |-> Nil, member |-> m]
    ELSE IF m = Nil
         THEN [err |-> FALSE, tc |-> TraceContext(a.tp, NewEmptyTraceState), member |-> m]
    ELSE
    LET m2 == DefaultValue(m, q.val)
        st == NewTraceState(m2)
    IN  IF st.err THEN [err |-> TRUE, tc |-> Nil, member |-> m2]
        ELSE [err |-> FALSE, tc |-> TraceContext(a.tp, st.ts), member |-> m2]

NewTraceContext(traceId, parentId) ==
    LET p == NewTraceParent(traceId, parentId) IN
    IF p.err THEN [err |-> TRUE, tc |-> Nil]
    ELSE [err |-> FALSE, tc |-> TraceContext(p.tp, NewEmptyTraceState)]

\* TraceContext.Mutate: the context and the caller's member after the call.
Mutate(c, parentId, sb, m, r) ==
    IF c.TraceParent = Nil THEN [err |-> TRUE, tc |-> c, member |-> m]
    ELSE
    LET q == IF parentId = <<>> THEN randomHex(r.parentId)
                                ELSE [err |-> FALSE, val |-> parentId] IN
    IF q.err THEN [err |-> TRUE, tc |-> c, member |-> m]
    ELSE
    LET sp == SetParentId(c.TraceParent, q.val) IN
    IF sp.err THEN [err |-> TRUE, tc |-> c, member |-> m]
    ELSE
    LET a  == applySamplingBehavior(sp.tp, sb)
        c1 == [c EXCEPT !.TraceParent = a.tp]
    IN
    IF a.err THEN [err |-> TRUE, tc |-> c1, member |-> m]
    ELSE IF m = Nil THEN [err |-> FALSE, tc |-> c1, member |-> m]
    ELSE
    LET m2 == DefaultValue(m, q.val) IN
    IF c1.TraceState = Nil
    THEN LET st == NewTraceState(m2) IN
         [err |-> st.err, tc |-> [c1 EXCEPT !.TraceState = st.ts], member |-> m2]
    ELSE \* the error of TraceState.Mutate is dropped
         [err |-> FALSE,
          tc |-> [c1 EXCEPT !.TraceState = TraceStateMutate(c1.TraceState, m2).ts],
          member |-> m2]

\* A WriteHeaders that writes the tracestate of every context that has one.
WriteHeadersAnyTraceState(c, h) ==
    LET h1 == IF c.TraceParent # Nil
              THEN HeaderSet(h, TraceParentHeader, String(c.TraceParent))
              ELSE h
    IN  IF c.TraceState # Nil
        THEN HeaderSet(h1, TraceStateHeader, TraceStateString(c.TraceState))
        ELSE h1

WriteHeaders(c, h) ==
    LET h1 == IF c.TraceParent # Nil
              THEN HeaderSet(h, TraceParentHeader, String(c.TraceParent))
              ELSE h
    IN  IF c.TraceState # Nil /\ Len(c.TraceState.Members) > 0
        THEN HeaderSet(h1, TraceStateHeader, TraceStateString(c.TraceState))
        ELSE h1

\* HandleTraceContext: [err, headers, tc, member]; headers and tc are Nil on error.
HandleTraceContext(h, parentId, m, sb, r) ==
    LET clone == HeaderClone(h)
        \* newHeaders.Del(TraceStateHeader), then GenerateTraceContext
        restart ==
            LET g == GenerateTraceContext(parentId, m, sb, r) IN
            IF g.err THEN [err |-> TRUE, headers |-> Nil, tc |-> Nil, member |-> g.member]
            ELSE [err |-> FALSE,
                  headers |-> WriteHeaders(g.tc, HeaderDel(clone, TraceStateHeader)),
                  tc |-> g.tc, member |-> g.member]
    IN
    IF HeaderGet(h, TraceParentHeader) # <<>>
    THEN LET parsed == ParseTraceContext(h) IN
         IF parsed.err THEN restart
         ELSE \* the error of Mutate is dropped
              LET mu == Mutate(parsed.tc, parentId, sb, m, r) IN
              [err |-> FALSE, headers |-> WriteHeaders(mu.tc, clone),
               tc |-> mu.tc, member |-> mu.member]
    ELSE restart

\* convertToHTTPHeader: every value of the map is added under the canonical
\* form of its name; a name with no values adds nothing.  (For maps in which no
\* two names have the same canonical form: the order of their values would
\* follow the iteration order of the map.)
convertToHTTPHeader(kh) ==
    LET filled == {k \in DOMAIN kh : Len(kh[k]) > 0} IN
    [c \in {CanonicalKey(k) : k \in filled} |->
        kh[CHOOSE k \in filled : CanonicalKey(k) = c]]

\* HandleKongTraceContext: [err, headers, tc, member]; the branch is chosen by
\* looking up "traceparent" in the map as it was given.
HandleKongTraceContext(kh, parentId, m, sb, r) ==
    LET httpHeaders == convertToHTTPHeader(kh)
        restart ==
            LET g == GenerateTraceContext(parentId, m, sb, r) IN
            IF g.err THEN [err |-> TRUE, headers |-> Nil, tc |-> Nil, member |-> g.member]
            ELSE [err |-> FALSE,
                  headers |-> WriteHeaders(g.tc, HeaderDel(httpHeaders, TraceStateHeader)),
                  tc |-> g.tc, member |-> g.member]
    IN
    IF TraceParentHeader \in DOMAIN kh /\ Len(kh[TraceParentHeader]) > 0
    THEN LET parsed == ParseTraceContext(httpHeaders) IN
         IF parsed.err THEN restart
         ELSE \* the error of Mutate is dropped
              LET mu == Mutate(parsed.tc, parentId, sb, m, r) IN
              [err |-> FALSE, headers |-> WriteHeaders(mu.tc, httpHeaders),
               tc |-> mu.tc, member |-> mu.member]
    ELSE restart

\* The header objects of a HandleTraceContext call, by reference: the caller's,
\* and the one headers.Clone() allocates, which the call writes to.
CallerRef == "headers"

\* newHeaders := *headers: the map is shared with the caller.
NewHeadersRefShared(ref) == ref

NewHeadersRef(ref) == "newHeaders"

\* Both objects when the call returns.  Only newHeaders is written: Del on the
\* two branches that generate, then WriteHeaders unless the call has failed.
HandleTraceContextHeap(h, parentId, m, sb, r) ==
    LET target  == NewHeadersRef(CallerRef)
        res     == HandleTraceContext(h, parentId, m, sb, r)
        written == IF res.err THEN HeaderDel(HeaderClone(h), TraceStateHeader)
                              ELSE res.headers
    IN  [ref \in {CallerRef, target} |-> IF ref = target THEN written ELSE h]

-----------------------------------------------------------------------------
(* Inputs *)

\* The identifiers of the repository's tests, and two more of each kind.
T1 == <<"0", "a", "f", "7", "6", "5", "1", "9", "1", "6", "c", "d", "4", "3", "d", "d", "8", "4", "4", "8", "e", "b", "2", "1", "1", "c", "8", "0", "3", "1", "9", "c">>
P1 == <<"0", "0", "f", "0", "6", "7", "a", "a", "0", "b", "a", "9", "0", "2", "b", "7">>
T2 == Rep("b", TraceIdLen)
P2 == Rep("c", ParentIdLen)
TR == Rep("d", TraceIdLen)
PR == Rep("e", ParentIdLen)

Versions == {<<"0", "0">>, <<"0", "1">>, <<"f", "f">>, <<"0", "g">>}

TraceIdFields ==
    {T1, ZeroTraceId, <<"A">> \o Rep("1", TraceIdLen - 1), T1 \o <<"1">>}

ParentIdFields == {P1, ZeroParentId, Rep("1", ParentIdLen - 1) \o <<"G">>}

FlagsFields == {<<"0", "0">>, <<"0", "1">>, <<"f", "e">>, <<"0", "x">>}

\* What follows the flags: nothing, or up to MaxTail characters.
MaxTail == 2
TailChars == {"-", "1"}
Tails == UNION {[1..n -> TailChars] : n \in 0..MaxTail}

TraceParentInputs ==
    {v \o <<"-">> \o t \o <<"-">> \o p \o <<"-">> \o f \o x :
        v \in Versions, t \in TraceIdFields, p \in ParentIdFields,
        f \in FlagsFields, x \in Tails}
    \cup {<<>>, <<"0", "1", "-", "i", "l", "l", "e", "g", "a", "l">>,
          \* a version-01 header whose trace id field is one character late
          <<"0", "1", "-", "g">> \o Rep("1", TraceIdLen) \o <<"-">> \o P1 \o <<"-", "0", "1">>}

TraceIdInputs == {T2, ZeroTraceId, Rep("B", TraceIdLen), Rep("b", TraceIdLen - 1)}
ParentIdInputs == {P2, ZeroParentId, Rep("C", ParentIdLen), Rep("c", ParentIdLen + 1)}

\* Inbound traceparent header values; NoHeader stands for "no such header".
NoHeader == <<"<absent>">>

TraceParentHeaders ==
    {NoHeader, <<>>,
     <<"0", "0", "-">> \o T1 \o <<"-">> \o P1 \o <<"-", "0", "0">>,
     <<"0", "0", "-">> \o T1 \o <<"-">> \o P1 \o <<"-", "0", "1">>,
     <<"0", "1", "-">> \o T1 \o <<"-">> \o P1 \o <<"-", "0", "1">>,
     <<"0", "1", "-">> \o T1 \o <<"-">> \o P1 \o <<"-", "f", "f", "-", "1">>,
     <<"0", "1", "-", "i", "l", "l", "e", "g", "a", "l">>}

\* Inbound tracestate lists of MaxMembers members and of up to ExtraInbound more.
ExtraInbound == 1

DigitOf(n) == HexDigits[n + 1]

LongList(n) ==
    [i \in 1..n |-> TraceStateMember(<<"m", DigitOf(i \div 10), DigitOf(i % 10)>>, <<"v">>)]

TraceStateHeaders ==
    {NoHeader, <<>>, <<",">>,
     <<"b", "=", "2">>, <<"a", "=", "1", ",", "b", "=", "2">>, <<"a", "=", "1", ",", " ", " ", "b", "=", "2", " ", " ">>, <<"a", "=", "1", ",", "a", "=", "2", ",", "b", "=", "3">>, <<"b", "a", "d">>}
    \cup {JoinMembers(LongList(n)) : n \in MaxMembers..(MaxMembers + ExtraInbound)}

\* Every request carries one header that is not part of the trace context.
OtherHeader == "X-Request-Id"

MakeHeaders(tpv, tsv) ==
    LET names == {OtherHeader}
                 \cup (IF tpv = NoHeader THEN {} ELSE {"Traceparent"})
                 \cup (IF tsv = NoHeader THEN {} ELSE {"Tracestate"})
    IN  [n \in names |-> IF n = "Traceparent" THEN <<tpv>>
                         ELSE IF n = "Tracestate" THEN <<tsv>>
                         ELSE <<<<"r", "1">>>>]

HeaderInputs == {MakeHeaders(a, b) : a \in TraceParentHeaders, b \in TraceStateHeaders}

CallerParentIds == {<<>>, P2, ZeroParentId, <<"x", "y", "z">>}

CallerMembers ==
    {Nil,
     TraceStateMember(<<"a">>, <<"9">>),
     TraceStateMember(<<"c">>, <<"x", " ", "y">>),
     TraceStateMember(<<"m", "0", "1">>, <<>>),
     TraceStateMember(<<"A">>, <<"1">>),
     TraceStateMember(<<"c">>, <<"x", ",">>)}

SamplingInputs == {SamplingBehaviorPassThrough, SamplingBehaviorAlwaysSampled,
                   SamplingBehaviorNeverSampled, InvalidSampling}

RandomFailure == [err |-> TRUE, val |-> <<>>]
Drawn(x) == [err |-> FALSE, val |-> x]

\* What randomHex(16) and randomHex(8) may return.
RandomTraceIds == {RandomFailure, Drawn(TR), Drawn(ZeroTraceId)}
RandomParentIds == {RandomFailure, Drawn(PR)}

\* rnd records the draws of the calls the operation makes; a randomHex that is
\* not called has NotDrawn.
NotDrawn == [err |-> TRUE, val |-> <<"<not drawn>">>]

\* HandleTraceContext generates (and draws a trace id) unless the traceparent parses.
Restarts(h) ==
    HeaderGet(h, TraceParentHeader) = <<>> \/ ParseTraceContext(h).err

RandomInputs(drawsTraceId, drawsParentId) ==
    [traceId  : IF drawsTraceId THEN RandomTraceIds ELSE {NotDrawn},
     parentId : IF drawsParentId THEN RandomParentIds ELSE {NotDrawn}]

\* Strings given to ParseTraceState: empty and blank ones, members with blanks
\* around them and around '=', duplicates, malformed ones, and lists of one
\* member less than MaxMembers up to ExtraInbound more.
TraceStateInputs ==
    {<<>>, <<",">>, <<",", ",">>, <<" ">>, <<" ", ",", " ">>, <<"\t">>,
     <<"a", "=", "1">>,
     <<" ", "a", "=", "1", " ">>,
     <<"a", " ", "=", "1">>,
     <<"a", "=", " ", "1">>,
     <<"a", "=", "1", " ", ",", "b", "=", "2">>,
     <<"a", "=", "1", ",", "b", "=", "2">>,
     <<"a", "=", "1", ",", ",", "b", "=", "2">>,
     <<"a", "=", "1", ",", "a", "=", "2", ",", "b", "=", "3">>,
     <<"b", "a", "d">>, <<"A", "=", "1">>, <<"a", "=">>}
    \cup {JoinMembers(LongList(n)) : n \in (MaxMembers - 1)..(MaxMembers + ExtraInbound)}

\* Members given to TraceState.Mutate and NewTraceState: well-formed ones (a
\* value may start with a space or hold one), then an uppercase key, an empty
\* value, values with ',' or '=' or a control character, a value ending in a space.
TraceStateMembers ==
    {TraceStateMember(<<"a">>, <<"9">>),
     TraceStateMember(<<"b">>, <<" ", "1">>),
     TraceStateMember(<<"c">>, <<"x", " ", "y">>),
     TraceStateMember(<<"m", "0", "1">>, <<"w">>),
     TraceStateMember(<<"m", "3", "2">>, <<"w">>),
     TraceStateMember(<<"A">>, <<"1">>),
     TraceStateMember(<<"a">>, <<>>),
     TraceStateMember(<<"a">>, <<"x", ",">>),
     TraceStateMember(<<"a">>, <<"x", "=", "y">>),
     TraceStateMember(<<"a">>, <<"\t">>),
     TraceStateMember(<<"a">>, <<"x", " ">>)}

\* The number of ts.Mutate calls of one behaviour.
MaxMutates == 2

\* Header maps given to HandleKongTraceContext: the traceparent under one of
\* three spellings of its name or absent, with no value, one value that parses,
\* one that does not, or an empty one; a tracestate; one other header.
KongNames == {"traceparent", "Traceparent", "TRACEPARENT"}

KongTraceParentValues ==
    {<<>>,
     <<<<>>>>,
     <<<<"0", "0", "-">> \o T1 \o <<"-">> \o P1 \o <<"-", "0", "1">>>>,
     <<<<"0", "1", "-", "i", "l", "l", "e", "g", "a", "l">>>>}

KongTraceStateValues == {NoHeader, <<"b", "=", "2">>, <<"b", "a", "d">>}

KongMake(name, vals, tsv) ==
    LET names == {OtherHeader}
                 \cup (IF name = "<absent>" THEN {} ELSE {name})
                 \cup (IF tsv = NoHeader THEN {} ELSE {"tracestate"})
    IN  [n \in names |-> IF n = name THEN vals
                         ELSE IF n = "tracestate" THEN <<tsv>>
                         ELSE <<<<"r", "1">>>>]

KongHeaderInputs ==
    {KongMake(n, v, t) : n \in KongNames, v \in KongTraceParentValues,
                         t \in KongTraceStateValues}
    \cup {KongMake("<absent>", <<>>, t) : t \in KongTraceStateValues}

KongParentIds == {<<>>, P2, <<"x", "y", "z">>}

KongMembers ==
    {Nil, TraceStateMember(<<"a">>, <<"9">>), TraceStateMember(<<"m", "0", "1">>, <<>>)}

KongSamplings == {SamplingBehaviorPassThrough, SamplingBehaviorAlwaysSampled}

\* Contexts written as literals: TraceContext{} and one with a TraceState only.
LiteralContexts ==
    {TraceContext(Nil, Nil),
     TraceContext(Nil, TraceState(<<TraceStateMember(<<"a">>, <<"1">>)>>))}

\* Arguments of TraceContext.Mutate.
MutateParentIds == {<<>>, P2, <<"x", "y", "z">>}

MutateMembers ==
    {Nil,
     TraceStateMember(<<"a">>, <<"9">>),
     TraceStateMember(<<"m", "0", "1">>, <<>>),
     TraceStateMember(<<"A">>, <<>>),
     TraceStateMember(<<"c">>, <<"x", ",">>)}

MutateSamplings == {SamplingBehaviorPassThrough, SamplingBehaviorAlwaysSampled,
                    InvalidSampling}

\* Header objects given to WriteHeaders: one without trace context headers, one
\* that holds both.
WriteTargets ==
    {MakeHeaders(NoHeader, NoHeader),
     MakeHeaders(<<"0", "0", "-">> \o T2 \o <<"-">> \o P2 \o <<"-", "0", "0">>,
                 <<"b", "=", "2">>)}

-----------------------------------------------------------------------------
(* The state machine.  The library keeps no state between calls: a behaviour *)
(* constructs one object and then works on it.                               *)

NoArgs == [none |-> TRUE]
NewTpUnset == [err |-> FALSE, tp |-> Nil]
NewTsUnset == [err |-> FALSE, ts |-> Nil]

Init ==
    /\ op = "none"
    /\ args = NoArgs
    /\ err = FALSE
    /\ tp = Nil
    /\ str = <<>>
    /\ newTp = NewTpUnset
    /\ newHeaders = Nil
    /\ tc = Nil
    /\ memberAfter = Nil
    /\ traceState = Nil
    /\ tsBefore = Nil
    /\ tsStr = <<>>
    /\ newTs = NewTsUnset
    /\ mutations = 0
    /\ callerHeaders = Nil
    /\ viaHttp = Nil

tpVars == <<tp, str, newTp>>
tcVars == <<newHeaders, tc, memberAfter>>
tsVars == <<traceState, tsBefore, tsStr, newTs, mutations>>
hdVars == <<callerHeaders, viaHttp>>

\* tp, err := ParseTraceParent(x)
ParseTraceParentAct ==
    /\ op = "none"
    /\ \E x \in TraceParentInputs :
          LET r == ParseTraceParent(x) IN
          /\ args' = [s |-> x]
          /\ err' = r.err
          /\ tp' = r.tp
    /\ op' = "ParseTraceParent"
    /\ UNCHANGED <<str, newTp, tcVars, tsVars, hdVars>>

\* tp, err := NewTraceParent(traceId, parentId)
NewTraceParentAct ==
    /\ op = "none"
    /\ \E t \in TraceIdInputs \cup {T1}, p \in ParentIdInputs \cup {P1} :
          LET r == NewTraceParent(t, p) IN
          /\ args' = [traceId |-> t, parentId |-> p]
          /\ err' = r.err
          /\ tp' = r.tp
    /\ op' = "NewTraceParent"
    /\ UNCHANGED <<str, newTp, tcVars, tsVars, hdVars>>

\* The object exists and has not been serialized yet.
Live == tp # Nil /\ op \notin {"none", "String", "Reparse"}

\* tp.SetSampled(b)
SetSampledAct ==
    /\ Live
    /\ \E b \in BOOLEAN :
          /\ args' = [sampled |-> b]
          /\ tp' = SetSampled(tp, b)
    /\ err' = FALSE
    /\ op' = "SetSampled"
    /\ UNCHANGED <<str, newTp, tcVars, tsVars, hdVars>>

\* err := tp.SetParentId(parentId)
SetParentIdAct ==
    /\ Live
    /\ \E p \in ParentIdInputs :
          LET r == SetParentId(tp, p) IN
          /\ args' = [parentId |-> p]
          /\ err' = r.err
          /\ tp' = r.tp
    /\ op' = "SetParentId"
    /\ UNCHANGED <<str, newTp, tcVars, tsVars, hdVars>>

\* err := tp.SetTraceId(traceId)
SetTraceIdAct ==
    /\ Live
    /\ \E t \in TraceIdInputs :
          LET r == SetTraceId(tp, t) IN
          /\ args' = [traceId |-> t]
          /\ err' = r.err
          /\ tp' = r.tp
    /\ op' = "SetTraceId"
    /\ UNCHANGED <<str, newTp, tcVars, tsVars, hdVars>>

\* str := tp.String()
StringAct ==
    /\ Live
    /\ str' = String(tp)
    /\ args' = NoArgs
    /\ err' = FALSE
    /\ op' = "String"
    /\ UNCHANGED <<tp, newTp, tcVars, tsVars, hdVars>>

\* newTp, err := ParseTraceParent(str)
ReparseAct ==
    /\ op = "String"
    /\ LET r == ParseTraceParent(str) IN
          /\ newTp' = r
          /\ err' = r.err
    /\ args' = [s |-> str]
    /\ op' = "Reparse"
    /\ UNCHANGED <<tp, str, tcVars, tsVars, hdVars>>

\* tc, err := NewTraceContext(traceId, parentId)
NewTraceContextAct ==
    /\ op = "none"
    /\ \E t \in TraceIdInputs \cup {T1}, p \in ParentIdInputs \cup {P1} :
          LET r == NewTraceContext(t, p) IN
          /\ args' = [traceId |-> t, parentId |-> p]
          /\ err' = r.err
          /\ tc' = r.tc
    /\ op' = "NewTraceContext"
    /\ UNCHANGED <<tp, str, newTp, newHeaders, memberAfter, tsVars, hdVars>>

\* tc, err := GenerateTraceContext(parentId, member, sampling)
GenerateTraceContextAct ==
    /\ op = "none"
    /\ \E p \in CallerParentIds, m \in CallerMembers, sb \in SamplingInputs :
       \E r \in RandomInputs(TRUE, p = <<>>) :
          LET g == GenerateTraceContext(p, m, sb, r) IN
          /\ args' = [parentId |-> p, member |-> m, sampling |-> sb, rnd |-> r]
          /\ err' = g.err
          /\ tc' = g.tc
          /\ memberAfter' = g.member
    /\ op' = "GenerateTraceContext"
    /\ UNCHANGED <<tp, str, newTp, newHeaders, tsVars, hdVars>>

\* newHeaders, tc, err := HandleTraceContext(&headers, parentId, member, sampling)
HandleTraceContextAct ==
    /\ op = "none"
    /\ \E h \in HeaderInputs, p \in CallerParentIds, m \in CallerMembers,
          sb \in SamplingInputs :
       \E r \in RandomInputs(Restarts(h), p = <<>>) :
          LET res == HandleTraceContext(h, p, m, sb, r) IN
          /\ args' = [headers |-> h, parentId |-> p, member |-> m,
                      sampling |-> sb, rnd |-> r]
          /\ err' = res.err
          /\ newHeaders' = res.headers
          /\ tc' = res.tc
          /\ memberAfter' = res.member
          /\ callerHeaders' = HandleTraceContextHeap(h, p, m, sb, r)[CallerRef]
    /\ op' = "HandleTraceContext"
    /\ UNCHANGED <<tp, str, newTp, tsVars, viaHttp>>

\* ts, err := ParseTraceState(x)
ParseTraceStateAct ==
    /\ op = "none"
    /\ \E x \in TraceStateInputs :
          LET r == ParseTraceState(x) IN
          /\ args' = [s |-> x]
          /\ err' = r.err
          /\ traceState' = r.ts
    /\ op' = "ParseTraceState"
    /\ UNCHANGED <<tpVars, tcVars, tsBefore, tsStr, newTs, mutations, hdVars>>

\* ts := NewEmptyTraceState()
NewEmptyTraceStateAct ==
    /\ op = "none"
    /\ traceState' = NewEmptyTraceState
    /\ args' = NoArgs
    /\ err' = FALSE
    /\ op' = "NewEmptyTraceState"
    /\ UNCHANGED <<tpVars, tcVars, tsBefore, tsStr, newTs, mutations, hdVars>>

\* ts, err := NewTraceState(member)
NewTraceStateAct ==
    /\ op = "none"
    /\ \E m \in TraceStateMembers :
          LET r == NewTraceState(m) IN
          /\ args' = [member |-> m]
          /\ err' = r.err
          /\ traceState' = r.ts
    /\ op' = "NewTraceState"
    /\ UNCHANGED <<tpVars, tcVars, tsBefore, tsStr, newTs, mutations, hdVars>>

\* The list exists and has not been serialized yet.
LiveTs == traceState # Nil /\ op \notin {"none", "TraceStateString", "TraceStateReparse"}

\* err := ts.Mutate(member)
TraceStateMutateAct ==
    /\ LiveTs
    /\ mutations < MaxMutates
    /\ \E m \in TraceStateMembers :
          LET r == TraceStateMutate(traceState, m) IN
          /\ args' = [member |-> m]
          /\ err' = r.err
          /\ traceState' = r.ts
    /\ tsBefore' = traceState
    /\ mutations' = mutations + 1
    /\ op' = "TraceStateMutate"
    /\ UNCHANGED <<tpVars, tcVars, tsStr, newTs, hdVars>>

\* tsStr := ts.String()
TraceStateStringAct ==
    /\ LiveTs
    /\ tsStr' = TraceStateString(traceState)
    /\ args' = NoArgs
    /\ err' = FALSE
    /\ op' = "TraceStateString"
    /\ UNCHANGED <<tpVars, tcVars, traceState, tsBefore, newTs, mutations, hdVars>>

\* newTs, err := ParseTraceState(tsStr)
TraceStateReparseAct ==
    /\ op = "TraceStateString"
    /\ LET r == ParseTraceState(tsStr) IN
          /\ newTs' = r
          /\ err' = r.err
    /\ args' = [s |-> tsStr]
    /\ op' = "TraceStateReparse"
    /\ UNCHANGED <<tpVars, tcVars, traceState, tsBefore, tsStr, mutations, hdVars>>

NextTP ==
    \/ ParseTraceParentAct
    \/ NewTraceParentAct
    \/ NewTraceContextAct
    \/ SetSampledAct
    \/ SetParentIdAct
    \/ SetTraceIdAct
    \/ StringAct
    \/ ReparseAct

\* The TraceParent object alone: construction, mutation, serialization.
SpecTP == Init /\ [][NextTP]_vars

NextRT ==
    \/ ParseTraceParentAct
    \/ NewTraceParentAct
    \/ SetSampledAct
    \/ SetParentIdAct
    \/ StringAct
    \/ ReparseAct

\* The objects the round trip is about: no SetTraceId.
SpecRT == Init /\ [][NextRT]_vars

Next ==
    \/ HandleTraceContextAct
    \/ GenerateTraceContextAct
    \/ NewTraceContextAct

\* The orchestration: one call per behaviour.
Spec == Init /\ [][Next]_vars

\* tc, err := ParseTraceContext(headers)
ParseTraceContextAct ==
    /\ op = "none"
    /\ \E h \in HeaderInputs :
          LET r == ParseTraceContext(h) IN
          /\ args' = [headers |-> h]
          /\ err' = r.err
          /\ tc' = r.tc
    /\ op' = "ParseTraceContext"
    /\ UNCHANGED <<tpVars, newHeaders, memberAfter, tsVars, hdVars>>

\* tc := &TraceContext{...}
TraceContextLiteralAct ==
    /\ op = "none"
    /\ \E c \in LiteralContexts : tc' = c
    /\ args' = NoArgs
    /\ err' = FALSE
    /\ op' = "TraceContextLiteral"
    /\ UNCHANGED <<tpVars, newHeaders, memberAfter, tsVars, hdVars>>

\* err := tc.Mutate(parentId, sampling, member), once, on a context that was
\* parsed, made by NewTraceContext or written as a literal.
MutateAct ==
    /\ tc # Nil
    /\ op \in {"ParseTraceContext", "NewTraceContext", "TraceContextLiteral"}
    /\ \E p \in MutateParentIds, m \in MutateMembers, sb \in MutateSamplings :
       \E r \in RandomInputs(FALSE, p = <<>> /\ tc.TraceParent # Nil) :
          LET mu == Mutate(tc, p, sb, m, r) IN
          /\ args' = [parentId |-> p, member |-> m, sampling |-> sb, rnd |-> r]
          /\ err' = mu.err
          /\ tc' = mu.tc
          /\ memberAfter' = mu.member
    /\ op' = "Mutate"
    /\ UNCHANGED <<tpVars, newHeaders, tsVars, hdVars>>

\* tc.WriteHeaders(&headers)
WriteHeadersAct ==
    /\ tc # Nil
    /\ op \in {"ParseTraceContext", "NewTraceContext", "TraceContextLiteral",
                "GenerateTraceContext", "Mutate"}
    /\ \E h \in WriteTargets :
          /\ args' = [headers |-> h]
          /\ newHeaders' = WriteHeaders(tc, h)
    /\ err' = FALSE
    /\ op' = "WriteHeaders"
    /\ UNCHANGED <<tpVars, tc, memberAfter, tsVars, hdVars>>

\* newHeaders, tc, err := HandleKongTraceContext(headers, parentId, member, sampling),
\* and HandleTraceContext on the same headers held in an http.Header.
HandleKongTraceContextAct ==
    /\ op = "none"
    /\ \E kh \in KongHeaderInputs, p \in KongParentIds, m \in KongMembers,
          sb \in KongSamplings :
       \E r \in RandomInputs(TRUE, p = <<>>) :
          LET res == HandleKongTraceContext(kh, p, m, sb, r)
              h   == convertToHTTPHeader(kh)
              ref == HandleTraceContext(h, p, m, sb, r)
          IN
          /\ args' = [headers |-> kh, parentId |-> p, member |-> m,
                      sampling |-> sb, rnd |-> r]
          /\ err' = res.err
          /\ newHeaders' = res.headers
          /\ tc' = res.tc
          /\ memberAfter' = res.member
          /\ viaHttp' = [err |-> ref.err, headers |-> ref.headers, tc |-> ref.tc]
    /\ op' = "HandleKongTraceContext"
    /\ UNCHANGED <<tpVars, tsVars, callerHeaders>>

NextKong == HandleKongTraceContextAct

\* The entry point for header maps: one call per behaviour.
SpecKong == Init /\ [][NextKong]_vars

NextTC ==
    \/ ParseTraceContextAct
    \/ NewTraceContextAct
    \/ GenerateTraceContextAct
    \/ TraceContextLiteralAct
    \/ MutateAct
    \/ WriteHeadersAct

\* The TraceContext object: construction, one Mutate, WriteHeaders.
SpecTC == Init /\ [][NextTC]_vars

NextTS ==
    \/ ParseTraceStateAct
    \/ NewEmptyTraceStateAct
    \/ NewTraceStateAct
    \/ TraceStateMutateAct
    \/ TraceStateStringAct
    \/ TraceStateReparseAct

\* The tracestate list alone: parsing, construction, mutation, serialization.
SpecTS == Init /\ [][NextTS]_vars

-----------------------------------------------------------------------------
(* Claims about ParseTraceParent and the TraceParent object *)

\* An identifier as the data model wants it: lowercase hex of the right length, not all zero.
ValidTraceId(id) == IsHexN(id, TraceIdLen) /\ id # ZeroTraceId
ValidParentId(id) == IsHexN(id, ParentIdLen) /\ id # ZeroParentId

\* C1: a TraceParent returned by ParseTraceParent never stores a version above
\* the highest known one (00), whatever the version byte of the input was.
C1_StoredVersionAtMostHighest ==
    (op = "ParseTraceParent" /\ ~err)
        => tp.version <= HighestSupportedTraceContextVersion

\* C2: ParseTraceParent fails for every input that starts with "ff", with or
\* without fields after the flags.
C2_ReservedVersionAlwaysFails ==
    (op = "ParseTraceParent" /\ Len(args.s) >= 2
        /\ args.s[1] = "f" /\ args.s[2] = "f") => err

\* C3: ParseTraceParent never returns an all-zero trace id or parent id, on the
\* strict path and on the higher-version path alike.
C3_NoAllZeroIdParsed ==
    (op = "ParseTraceParent" /\ ~err)
        => (tp.traceId # ZeroTraceId /\ tp.parentId # ZeroParentId)

\* C4: NewTraceContext, NewTraceParent, SetTraceId and SetParentId return an
\* error and store nothing when an identifier given to them is not lowercase hex
\* of the right length or is all zeros.
C4_ConstructionValidatesIds ==
    [][ /\ (op' = "NewTraceParent"
              /\ ~(ValidTraceId(args'.traceId) /\ ValidParentId(args'.parentId)))
            => (err' /\ tp' = Nil)
        /\ (op' = "NewTraceContext"
              /\ ~(ValidTraceId(args'.traceId) /\ ValidParentId(args'.parentId)))
            => (err' /\ tc' = Nil)
        /\ (op' = "SetTraceId" /\ ~ValidTraceId(args'.traceId))
            => (err' /\ tp' = tp)
        /\ (op' = "SetParentId" /\ ~ValidParentId(args'.parentId))
            => (err' /\ tp' = tp)
      ]_vars

\* C10: a TraceParent made by NewTraceParent or by a successful ParseTraceParent,
\* then changed by SetSampled and successful SetParentId calls, serializes to a
\* string that ParseTraceParent parses back to the same four fields.
C10_TraceParentRoundTrip ==
    op = "Reparse" => (~newTp.err /\ newTp.tp = tp)

\* The characters of x at the 0-based positions from..to are lowercase hex.
HexAt(x, from, to) == \A i \in from..to : x[i + 1] \in HexLower

\* The forward-compatible form, position by position (0-based positions).
ForwardForm(x) ==
    /\ Len(x) >= 55
    /\ HexAt(x, 3, 34) /\ x[36] = "-"
    /\ HexAt(x, 36, 51) /\ x[53] = "-"
    /\ HexAt(x, 53, 54)
    /\ Len(x) = 55 \/ x[56] = "-"

\* ParseTraceParent hands x to the forward-compatible parser.
ForwardTaken(x) ==
    /\ ~traceParentPattern(x)
    /\ versionPattern(x)
    /\ DecodeByte(x[1], x[2]) > HighestSupportedTraceContextVersion

\* C11: off the strict form, ParseTraceParent succeeds only through the
\* forward-compatible parser, which is taken only for a version byte above 00
\* and succeeds exactly for the forward-compatible form; the result then has
\* the trace id, parent id and flags of the fixed positions, and nothing of
\* what follows them.  A version-00 header off the strict form is rejected.
C11_ForwardCompatibleParsing ==
    op = "ParseTraceParent" =>
        /\ ForwardTaken(args.s) =>
              /\ ~err <=> ForwardForm(args.s)
              /\ ~err => tp = TraceParent(HighestSupportedTraceContextVersion,
                                          Slice(args.s, 3, 35), Slice(args.s, 36, 52),
                                          DecodeByte(args.s[54], args.s[55]))
        /\ (~traceParentPattern(args.s) /\ ~ForwardTaken(args.s)) => err
        /\ (~err /\ ~traceParentPattern(args.s)) =>
              <<args.s[1], args.s[2]>> # <<"0", "0">>

\* A version-01 header with a trailing field was parsed.
C11_Witness ==
    /\ op = "ParseTraceParent" /\ ~err
    /\ Len(args.s) > TraceParentLen
    /\ <<args.s[1], args.s[2]>> = <<"0", "1">>
    /\ tp.traceId = T1 /\ tp.parentId = P1 /\ tp.flags = 254

-----------------------------------------------------------------------------
(* Claims about HandleTraceContext and the constructors of a TraceContext *)

Handled == op = "HandleTraceContext"

\* The inbound header values of the last HandleTraceContext call.
InboundTraceParent == HeaderGet(args.headers, TraceParentHeader)
InboundTraceState == HeaderGet(args.headers, TraceStateHeader)

\* The four inbound states of the decision table.
TraceParentAbsent == InboundTraceParent = <<>>
TraceParentParses == ~TraceParentAbsent /\ ~ParseTraceParent(InboundTraceParent).err
TraceParentMalformed == ~TraceParentAbsent /\ ParseTraceParent(InboundTraceParent).err
TraceStateParses == ~ParseTraceState(InboundTraceState).err

InboundMembers == ParseTraceState(InboundTraceState).ts.Members

\* Caller arguments that the grammar accepts; an empty parentId asks for a random
\* one and an empty member value asks for the parent id.
ValidCallerArgs ==
    /\ args.parentId = <<>> \/ ValidParentId(args.parentId)
    /\ \/ args.member = Nil
       \/ /\ keyPattern(args.member.Key)
          /\ args.member.Value = <<>> \/ valuePattern(args.member.Value)
    /\ args.sampling \in {SamplingBehaviorPassThrough, SamplingBehaviorAlwaysSampled,
                          SamplingBehaviorNeverSampled}

\* Every randomHex the call makes succeeds.
RandomWorks ==
    /\ args.rnd.traceId # NotDrawn => ~args.rnd.traceId.err
    /\ args.rnd.parentId # NotDrawn => ~args.rnd.parentId.err

\* The parent id the call is to install.
WantedParentId ==
    IF args.parentId = <<>> THEN args.rnd.parentId.val ELSE args.parentId

HasTraceStateOut == "Tracestate" \in DOMAIN newHeaders

\* "key=value" of the member the caller supplied, as the only header value.
MemberAlone == <<memberAfter.Key \o <<"=">> \o memberAfter.Value>>

\* C5: with a traceparent that parses and a tracestate that does not, the call
\* returns no error, keeps the trace id, and the returned tracestate header is
\* absent or is the supplied member alone.
C5_MalformedTraceStateDropped ==
    (Handled /\ TraceParentParses /\ ~TraceStateParses) =>
        /\ ~err
        /\ tc.TraceParent.traceId = ParseTraceParent(InboundTraceParent).tp.traceId
        /\ \/ ~HasTraceStateOut
           \/ args.member # Nil /\ newHeaders["Tracestate"] = MemberAlone

\* A parentId or member that the grammar rejects.
InvalidCallerInput ==
    \/ args.parentId # <<>> /\ ~parentIdPattern(args.parentId)
    \/ /\ args.member # Nil
       /\ \/ ~keyPattern(args.member.Key)
          \/ args.member.Value # <<>> /\ ~valuePattern(args.member.Value)

\* C6: in every inbound state an invalid parentId or member makes
\* HandleTraceContext return an error, and a call that returns no error with a
\* non-empty parentId has installed that parentId.
C6_InvalidCallerInputSurfaces ==
    Handled =>
        /\ InvalidCallerInput => err
        /\ (~err /\ args.parentId # <<>>) => tc.TraceParent.parentId = args.parentId

\* C7: with the traceparent absent or malformed, valid caller arguments and a
\* working random source, the call returns no error, the context carries the
\* freshly drawn trace id and the wanted parent id, and the returned tracestate
\* is absent without a member and is exactly the member's key=value with one.
C7_RestartsTrace ==
    (Handled /\ (TraceParentAbsent \/ TraceParentMalformed)
        /\ ValidCallerArgs /\ RandomWorks) =>
        /\ ~err
        /\ tc.TraceParent.traceId = args.rnd.traceId.val
        /\ tc.TraceParent.parentId = WantedParentId
        /\ IF args.member = Nil THEN ~HasTraceStateOut
           ELSE /\ HasTraceStateOut
                /\ newHeaders["Tracestate"] = MemberAlone
                /\ memberAfter.Key = args.member.Key
                /\ memberAfter.Value =
                      (IF args.member.Value = <<>> THEN WantedParentId
                       ELSE args.member.Value)

\* A malformed traceparent came with a tracestate of two members, and a member
\* was supplied: the restart kept only the supplied member.
C7_Witness ==
    /\ Handled /\ TraceParentMalformed /\ ValidCallerArgs /\ RandomWorks
    /\ TraceStateParses /\ Len(InboundMembers) = 2
    /\ args.member # Nil /\ args.parentId = <<>>
    /\ ~err /\ newHeaders["Tracestate"] = MemberAlone

\* The merge path with arguments the grammar accepts.
Merged ==
    Handled /\ TraceParentParses /\ TraceStateParses /\ ValidCallerArgs /\ RandomWorks

MergedIds ==
    /\ ~err
    /\ tc.TraceParent.traceId = ParseTraceParent(InboundTraceParent).tp.traceId
    /\ tc.TraceParent.parentId = WantedParentId

WithoutFirst(ms, k) ==
    LET hits == {i \in 1..Len(ms) : ms[i].Key = k} IN
    IF hits = {} THEN ms
    ELSE LET i == CHOOSE x \in hits : \A y \in hits : x <= y IN
         [j \in 1..(Len(ms) - 1) |-> IF j < i THEN ms[j] ELSE ms[j + 1]]

FirstN(ms, n) == [j \in 1..(IF Len(ms) < n THEN Len(ms) ELSE n) |-> ms[j]]

C9_TraceStateAlwaysPresent ==
    (op \in {"HandleTraceContext", "GenerateTraceContext", "NewTraceContext"} /\ ~err)
        => tc.TraceState # Nil

-----------------------------------------------------------------------------
(* Claims about the tracestate list *)

\* ts.Mutate returned without error.
Mutated == op = "TraceStateMutate" /\ ~err

\* The positions of the list ms that hold the key k.
Holding(ms, k) == {i \in 1..Len(ms) : ms[i].Key = k}

\* C12: after a successful Mutate with key k, on a constructed list or on a
\* parsed one that holds k several times, exactly one member of the list has
\* key k, and it is the first one.
C12_MutateKeyUnique ==
    Mutated =>
        /\ Cardinality(Holding(traceState.Members, args.member.Key)) = 1
        /\ traceState.Members[1].Key = args.member.Key

\* The key of the member given to Mutate was not in the list before the call.
KeyWasAbsent == Holding(tsBefore.Members, args.member.Key) = {}

\* C13: after a successful Mutate the list has at most 32 members, whatever its
\* length before; on a list of exactly 32 members a key that is not in the list
\* leaves 32 members, the new member first, then the first 31 of the old list
\* (the rightmost one is evicted).
C13_Capacity ==
    Mutated =>
        /\ Len(traceState.Members) <= MaxMembers
        /\ (Len(tsBefore.Members) = MaxMembers /\ KeyWasAbsent) =>
              /\ Len(traceState.Members) = MaxMembers
              /\ traceState.Members[1] = args.member
              /\ \A i \in 2..MaxMembers :
                    traceState.Members[i] = tsBefore.Members[i - 1]

\* A list of 32 members was mutated with a key it did not hold: 32 members
\* again, the old last one gone.
C13_Witness ==
    /\ Mutated /\ KeyWasAbsent
    /\ Len(tsBefore.Members) = MaxMembers
    /\ Len(traceState.Members) = MaxMembers
    /\ traceState.Members[MaxMembers] = tsBefore.Members[MaxMembers - 1]

\* C14: a successful Mutate(m) leaves the list equal to m followed by the old
\* list without the (first) member of m's key, the other members in their old
\* order, cut to the first 32 entries; the same Mutate(m) applied once more
\* leaves the list as it is.
C14_MoveToFront ==
    [][ /\ (op' = "TraceStateMutate" /\ ~err') =>
              traceState'.Members =
                  FirstN(<<args'.member>>
                         \o WithoutFirst(tsBefore'.Members, args'.member.Key),
                         MaxMembers)
        /\ (Mutated /\ op' = "TraceStateMutate" /\ args' = args) =>
              (~err' /\ traceState' = traceState)
      ]_vars

\* A second Mutate found its member's key first in a list of three or more
\* members and left the list as it was.
C14_Witness ==
    /\ Mutated /\ mutations = 2
    /\ Len(traceState.Members) >= 3
    /\ traceState.Members[1] = args.member
    /\ tsBefore = traceState

\* C15 as stated: with a key that was not in the list the length grows by
\* exactly 1 unless the list was at the cap (32 members or more); with a key
\* that was in the list the member is at position 0 and the length is unchanged.
C15_LengthEffect ==
    Mutated =>
        /\ KeyWasAbsent =>
              \/ Len(traceState.Members) = Len(tsBefore.Members) + 1
              \/ Len(tsBefore.Members) >= MaxMembers
        /\ ~KeyWasAbsent =>
              /\ traceState.Members[1] = args.member
              /\ Len(traceState.Members) = Len(tsBefore.Members)

Min(a, b) == IF a < b THEN a ELSE b

\* C15 amended: the member is at position 0, and the length is the old length
\* plus 1 for a key that was not in the list, the old length for a key that
\* was, in both cases cut to 32.
C15_LengthEffectUpToCap ==
    Mutated =>
        /\ traceState.Members[1] = args.member
        /\ Len(traceState.Members) =
              Min(MaxMembers,
                  IF KeyWasAbsent THEN Len(tsBefore.Members) + 1
                                  ELSE Len(tsBefore.Members))

\* A parsed list of more than 32 members was mutated with a key it held, and
\* came out with 32 members.
C15_Witness ==
    /\ Mutated /\ ~KeyWasAbsent
    /\ Len(tsBefore.Members) > MaxMembers
    /\ Len(traceState.Members) = MaxMembers

\* Characters below \x20 that have a string literal.
ControlChars == {"\t", "\n", "\f", "\r"}

\* The members the grammar is said to reject: an uppercase letter in the key, an
\* empty value, a value with ',' or '=' or a control character, a value that
\* ends in a space.
SaidRejected(m) ==
    \/ \E i \in 1..Len(m.Key) : m.Key[i] \in UpperAlpha
    \/ m.Value = <<>>
    \/ \E i \in 1..Len(m.Value) : m.Value[i] \in {",", "="} \cup ControlChars
    \/ m.Value[Len(m.Value)] = " "

\* C16: a Mutate whose key or value the grammar rejects returns an error and
\* leaves the list as it was: the same members in the same order.
C16_IllegalMutateChangesNothing ==
    (op = "TraceStateMutate"
        /\ \/ ~keyPattern(args.member.Key)
           \/ ~valuePattern(args.member.Value)
           \/ SaidRejected(args.member))
        => (err /\ traceState = tsBefore)

\* A list of two members or more refused a value that ends in a space.
C16_Witness ==
    /\ op = "TraceStateMutate" /\ err
    /\ keyPattern(args.member.Key)
    /\ args.member.Value # <<>>
    /\ args.member.Value[Len(args.member.Value)] = " "
    /\ Len(tsBefore.Members) >= 2
    /\ traceState = tsBefore

\* A string of commas and white space only (the empty string is one).
BlankList(x) == AllIn(x, Whitespace \cup {","})

\* C17: ParseTraceState succeeds, with a list of no members, on every input
\* that is empty or holds only commas and white space.
C17_BlankInputParsesEmpty ==
    (op = "ParseTraceState" /\ BlankList(args.s))
        => (~err /\ traceState # Nil /\ traceState.Members = <<>>)

\* Inputs with well-formed members that have spaces before the key, after the
\* value, or on one side of '='.
SpacedMembers ==
    {<<" ", "a", "=", "1", " ">>, <<"a", " ", "=", "1">>, <<"a", "=", " ", "1">>,
     <<"a", "=", "1", " ", ",", "b", "=", "2">>}

Trimmed(x) == x # <<>> /\ x[1] \notin Whitespace /\ x[Len(x)] \notin Whitespace

\* C18: a member with spaces before the key, after the value or on either side
\* of '=' parses, and no stored key or value starts or ends with white space.
C18_WhitespaceStripped ==
    op = "ParseTraceState" =>
        /\ args.s \in SpacedMembers => ~err
        /\ ~err => \A i \in 1..Len(traceState.Members) :
                      /\ Trimmed(traceState.Members[i].Key)
                      /\ Trimmed(traceState.Members[i].Value)

\* A list of at most 32 members whose keys and values satisfy the grammar.
WellFormed(t) ==
    /\ Len(t.Members) <= MaxMembers
    /\ \A i \in 1..Len(t.Members) :
          keyPattern(t.Members[i].Key) /\ valuePattern(t.Members[i].Value)

\* key=value of the first n members of ms, with ',' between them.
RECURSIVE KeyValueList(_, _)
KeyValueList(ms, n) ==
    IF n = 0 THEN <<>>
    ELSE (IF n = 1 THEN <<>> ELSE KeyValueList(ms, n - 1) \o <<",">>)
         \o ms[n].Key \o <<"=">> \o ms[n].Value

\* C19: for a list of at most 32 well-formed members (a value may start with a
\* space), String gives key=value joined by ',' with nothing added, the empty
\* string for no members, and ParseTraceState of that string succeeds and
\* returns the same members in the same order.
C19_TraceStateRoundTrip ==
    (op \in {"TraceStateString", "TraceStateReparse"} /\ WellFormed(traceState)) =>
        /\ tsStr = KeyValueList(traceState.Members, Len(traceState.Members))
        /\ traceState.Members = <<>> => tsStr = <<>>
        /\ op = "TraceStateReparse" => (~newTs.err /\ newTs.ts = traceState)

\* A list of two members or more, one with a value that starts with a space,
\* was serialized and parsed back.
C19_Witness ==
    /\ op = "TraceStateReparse" /\ WellFormed(traceState)
    /\ Len(traceState.Members) >= 2
    /\ \E i \in 1..Len(traceState.Members) : traceState.Members[i].Value[1] = " "
    /\ ~newTs.err /\ newTs.ts = traceState

-----------------------------------------------------------------------------
(* Claims about the sampling policy *)

\* The flags of the inbound traceparent, when it parses.
InboundFlags == ParseTraceParent(InboundTraceParent).tp.flags

\* Bit 0 of a flags byte, and the other seven bits.
SampledBit(f) == f % 2
OtherBits(f) == f \div 2

\* C20: when HandleTraceContext returns without error, the sampled bit of the
\* returned context is 1 under AlwaysSampled and 0 under NeverSampled; under
\* PassThrough it is the inbound bit on the merge path and 0 for a generated
\* context; the other seven bits are the inbound ones on the merge path and 0
\* for a generated context.
C20_SamplingPolicy ==
    (Handled /\ ~err) =>
        LET f == tc.TraceParent.flags IN
        /\ args.sampling = SamplingBehaviorAlwaysSampled => SampledBit(f) = 1
        /\ args.sampling = SamplingBehaviorNeverSampled => SampledBit(f) = 0
        /\ args.sampling = SamplingBehaviorPassThrough =>
              SampledBit(f) = (IF TraceParentParses THEN SampledBit(InboundFlags) ELSE 0)
        /\ OtherBits(f) = (IF TraceParentParses THEN OtherBits(InboundFlags) ELSE 0)

-----------------------------------------------------------------------------
(* Claims about the header container *)

TraceHeaderNames == {CanonicalKey(TraceParentHeader), CanonicalKey(TraceStateHeader)}

\* C21: the caller's headers are after the call what they were before it, in
\* every inbound state, and the returned headers have, apart from traceparent
\* and tracestate, the same names with the same values as the input.
C21_WorksOnCopy ==
    Handled =>
        /\ callerHeaders = args.headers
        /\ ~err =>
              /\ DOMAIN newHeaders \ TraceHeaderNames
                    = DOMAIN args.headers \ TraceHeaderNames
              /\ \A n \in DOMAIN args.headers \ TraceHeaderNames :
                    newHeaders[n] = args.headers[n]

\* A trace was restarted: the returned headers have no tracestate and a new
\* traceparent, the caller's headers still hold the inbound ones.
C21_Witness ==
    /\ Handled /\ ~err /\ TraceParentMalformed
    /\ ~HasTraceStateOut
    /\ "Tracestate" \in DOMAIN callerHeaders
    /\ newHeaders["Traceparent"] # callerHeaders["Traceparent"]
    /\ newHeaders[OtherHeader] = args.headers[OtherHeader]

-----------------------------------------------------------------------------
(* Claims about the TraceContext object *)

\* GenerateTraceContext or tc.Mutate was given a member with an empty value.
EmptyValueSupplied ==
    /\ op \in {"GenerateTraceContext", "Mutate"}
    /\ args.member # Nil
    /\ args.member.Value = <<>>

\* C22: when GenerateTraceContext or tc.Mutate is given a member with an empty
\* value and returns without error, the first member of the resulting
\* tracestate is the supplied key with the parent id of the resulting
\* TraceParent as its value, and that parent id is the caller's, or the drawn
\* one when the caller's was empty.
C22_EmptyValueIsParentId ==
    (EmptyValueSupplied /\ ~err) =>
        /\ tc.TraceParent.parentId = WantedParentId
        /\ tc.TraceState # Nil
        /\ Len(tc.TraceState.Members) >= 1
        /\ tc.TraceState.Members[1] =
              TraceStateMember(args.member.Key, tc.TraceParent.parentId)

\* The values of header n in h, none when h has no such header.
ValuesOf(h, n) == IF n \in DOMAIN h THEN h[n] ELSE <<>>

\* C23: WriteHeaders sets traceparent to the serialized TraceParent when the
\* context has one, sets tracestate to the serialized list only when the
\* context's TraceState has a member, never writes an empty tracestate value,
\* and leaves every other header, and all of them with neither part, alone.
C23_WriteHeaders ==
    op = "WriteHeaders" =>
        LET hasList == tc.TraceState # Nil /\ Len(tc.TraceState.Members) >= 1 IN
        /\ ValuesOf(newHeaders, "Traceparent") =
              (IF tc.TraceParent # Nil THEN <<String(tc.TraceParent)>>
               ELSE ValuesOf(args.headers, "Traceparent"))
        /\ ValuesOf(newHeaders, "Tracestate") =
              (IF hasList
               THEN <<KeyValueList(tc.TraceState.Members, Len(tc.TraceState.Members))>>
               ELSE ValuesOf(args.headers, "Tracestate"))
        /\ ValuesOf(newHeaders, "Tracestate") # <<<<>>>>
        /\ \A n \in (DOMAIN newHeaders \cup DOMAIN args.headers) \ TraceHeaderNames :
              ValuesOf(newHeaders, n) = ValuesOf(args.headers, n)
        /\ (tc.TraceParent = Nil /\ ~hasList) => newHeaders = args.headers

\* A context with a TraceParent and an empty TraceState was written to headers
\* without trace context: a traceparent and no tracestate came out.
C23_Witness ==
    /\ op = "WriteHeaders"
    /\ tc.TraceParent # Nil
    /\ tc.TraceState # Nil /\ tc.TraceState.Members = <<>>
    /\ DOMAIN args.headers = {OtherHeader}
    /\ DOMAIN newHeaders = {OtherHeader, "Traceparent"}

\* C24: ParseTraceContext fails exactly when the traceparent header does not
\* parse, and then returns no context; otherwise the TraceParent is the one of
\* the traceparent header whatever the tracestate header is, and the TraceState
\* is the parsed list, or absent when the tracestate does not parse.
C24_TraceStateNeverFailsParse ==
    op = "ParseTraceContext" =>
        LET p  == ParseTraceParent(HeaderGet(args.headers, TraceParentHeader))
            st == ParseTraceState(HeaderGet(args.headers, TraceStateHeader))
        IN  /\ err <=> p.err
            /\ err => tc = Nil
            /\ ~err => /\ tc.TraceParent = p.tp
                       /\ tc.TraceState = (IF st.err THEN Nil ELSE st.ts)

\* A traceparent that parses came with a tracestate that does not.
C24_Witness ==
    /\ op = "ParseTraceContext" /\ ~err
    /\ ParseTraceState(HeaderGet(args.headers, TraceStateHeader)).err
    /\ tc.TraceParent.traceId = T1
    /\ tc.TraceState = Nil

\* C25: after HandleTraceContext or GenerateTraceContext (which the former
\* calls on the generate branches, as it calls tc.Mutate on the merge branch)
\* the caller's member has the key and the value the caller passed, also when
\* the value passed was empty.
C25_MemberArgumentUnchanged ==
    (op \in {"HandleTraceContext", "GenerateTraceContext"} /\ args.member # Nil)
        => memberAfter = args.member

-----------------------------------------------------------------------------
(* Claims about HandleKongTraceContext *)

\* C26: HandleKongTraceContext returns what HandleTraceContext returns for the
\* same headers held in an http.Header, the same arguments and the same random
\* draws, whatever the letter case of the header names: the same error status,
\* the same TraceContext, and the same traceparent and tracestate headers.
C26_KongEquivalent ==
    op = "HandleKongTraceContext" =>
        /\ err = viaHttp.err
        /\ tc = viaHttp.tc
        /\ ~err => \A n \in TraceHeaderNames :
                      ValuesOf(newHeaders, n) = ValuesOf(viaHttp.headers, n)

====
